---- MODULE Spec2Model ----
(***************************************************************************)
(* Model of go-health (package health): a Monitor that owns a cache of     *)
(* check statuses guarded by a sync.RWMutex, one polling goroutine per     *)
(* registered check, and the aggregated read Monitor.Check.                *)
(*                                                                         *)
(* Time is discrete.  `now' is the wall clock (time.Now()); it saturates   *)
(* at MaxTime so that the state space is finite.  Sleeps and context       *)
(* deadlines are count-down timers decremented by Tick.                    *)
(***************************************************************************)
EXTENDS Integers, FiniteSets, Sequences, TLC

(* ------------------------------- bounds -------------------------------- *)
MaxTasks == 2
MaxTime == 2
NumCallers == 2

(* ----------------------------- State (iota) ---------------------------- *)
StateDown == 0
StateWarn == 1
StateUp == 2
State == {StateDown, StateWarn, StateUp}

(* Details is an opaque payload; NoDetails is the nil interface value.     *)
NoDetails == "nil"
ZeroTime == 0

Status(s, d) == [State |-> s, Details |-> d]
CheckStatus(st, ts) == [Status |-> st, Timestamp |-> ts]

(* --------------------------- contexts ---------------------------------- *)
Ctxs == {"ctx1", "ctx2"}
NoDeadline == -1
NoCtx == [root |-> "none", derived |-> FALSE, deadline |-> NoDeadline]
RegCtx(id) == [root |-> id, derived |-> FALSE, deadline |-> NoDeadline]
(* context.WithTimeout(parent, d): a child of parent that carries a        *)
(* deadline d time units ahead.                                            *)
WithTimeout(parent, d) == [root |-> parent.root, derived |-> TRUE, deadline |-> d]

(* --------------------------- probe functions --------------------------- *)
(* A CheckFunc is caller code.  Its behaviour is described by: whether it  *)
(* ever finishes its work (how long that takes is up to the function),     *)
(* what it returns then, whether it selects on ctx.Done(), and what it     *)
(* returns when it sees Done, and whether it panics instead of returning.  *)
Funcs ==
  [ slow   |-> [returns |-> TRUE, honours |-> TRUE, panics |-> FALSE,
                normal |-> Status(StateUp, NoDetails),
                onCancel |-> Status(StateWarn, NoDetails)],
    ignore |-> [returns |-> TRUE, honours |-> FALSE, panics |-> FALSE,
                normal |-> Status(StateUp, "late"),
                onCancel |-> Status(StateDown, NoDetails)],
    hang   |-> [returns |-> FALSE, honours |-> FALSE, panics |-> FALSE,
                normal |-> Status(StateUp, NoDetails),
                onCancel |-> Status(StateDown, NoDetails)],
    faulty |-> [returns |-> FALSE, honours |-> FALSE, panics |-> TRUE,
                normal |-> Status(StateUp, NoDetails),
                onCancel |-> Status(StateDown, NoDetails)] ]

(* ------------------------------ checks --------------------------------- *)
Names == {"a", "b"}
Check(n, f, ttl, to) == [Name |-> n, Func |-> f, TTL |-> ttl, Timeout |-> to]
NoCheck == Check("", "hang", 0, 0)
DefaultTTL == 1
(* NewCheck: TTL of one second, Timeout left at its zero value.            *)
NewCheck(n, f) == Check(n, f, DefaultTTL, 0)
(* The registrations callers make: a context and a check value.           *)
Registrations ==
  { <<"ctx1", [NewCheck("a", "slow") EXCEPT !.Timeout = 1]>>,
    <<"ctx2", NewCheck("b", "slow")>>,
    <<"ctx1", [NewCheck("b", "ignore") EXCEPT !.Timeout = 1, !.TTL = 2]>>,
    <<"ctx2", [NewCheck("a", "hang") EXCEPT !.Timeout = 1]>> }

(* Registrations of checks whose probe function panics.                    *)
PanicRegistrations ==
  { <<"ctx1", [NewCheck("a", "faulty") EXCEPT !.Timeout = 1]>>,
    <<"ctx2", NewCheck("b", "faulty")>> }

(* The argument lists of the Monitor.Monitor calls callers write: a        *)
(* context and one check, or a context and two checks.                     *)
MonitorCalls ==
  {<<r[1], <<r[2]>>>> : r \in Registrations} \cup
  {<<"ctx1", <<NewCheck("a", "slow"), NewCheck("b", "slow")>>>>}

(* The parameter list of Monitor.Monitor is (ctx context.Context, check    *)
(* Check): a call binds exactly one check.                                 *)
Accepts(checks) == Len(checks) = 1

(* ------------------------------ state ---------------------------------- *)
VARIABLES
  checkStatuses,  \* Monitor.checkStatuses: map name -> CheckStatus
  mtx,            \* Monitor.mtx: [w: a writer holds it, pending: a writer
                  \* waits for the readers to leave, readers: reader count]
  cancelled,      \* per registration context: Done channel closed
  now,            \* wall clock
  tasks,          \* polling goroutines
  callers         \* goroutines of the library's user

vars == <<checkStatuses, mtx, cancelled, now, tasks, callers>>

Tasks == 1..MaxTasks
Callers == 1..NumCallers

EmptyMap == [n \in {} |-> CheckStatus(Status(StateDown, NoDetails), ZeroTime)]
Put(m, k, v) == [n \in (DOMAIN m) \cup {k} |-> IF n = k THEN v ELSE m[n]]

IdleTask ==
  [pc |-> "unused", check |-> NoCheck, ctx |-> "none", timer |-> 0,
   pctx |-> NoCtx, pending |-> CheckStatus(Status(StateDown, NoDetails), ZeroTime),
   wrote |-> FALSE,  \* wrote: history, a probe result of this task was stored
   running |-> 0,    \* running: invocations of check.Func in flight
   callerCheck |-> NoCheck]  \* the caller's variable the check was passed from

(* check, ctx: the arguments of a Monitor.Monitor call in progress;        *)
(* state, statuses: the locals of a Monitor.Check call in progress, and    *)
(* the MonitorStatus made of them while the caller keeps it ("holding").   *)
IdleCaller ==
  [pc |-> "idle", check |-> NoCheck, ctx |-> "none",
   state |-> StateUp, statuses |-> EmptyMap]

(* health.New(): empty cache, unlocked mutex.                              *)
New == EmptyMap

Init ==
  /\ checkStatuses = New
  /\ mtx = [w |-> FALSE, pending |-> FALSE, readers |-> 0]
  /\ cancelled = [c \in Ctxs |-> FALSE]
  /\ now = 1
  /\ tasks = [t \in Tasks |-> IdleTask]
  /\ callers = [c \in Callers |-> IdleCaller]

(* ------------------------------ RWMutex -------------------------------- *)
(* sync.RWMutex.  Lock first takes the writers' mutex, then announces the  *)
(* writer (pending), which keeps new readers out, and proceeds once the    *)
(* readers that hold the lock have left.  RLock waits while a writer holds *)
(* the lock or is pending.                                                 *)
WriterFree(m) == ~m.w /\ ~m.pending
(* Faulty variant: a writer that does not wait for the readers.            *)
ReadersGoneAlways(m) == TRUE
ReadersGone(m) == m.readers = 0
(* Faulty variant: a reader that does not wait for the writer.             *)
CanRLockAlways(m) == TRUE
CanRLock(m) == ~m.w /\ ~m.pending
Lock(m) == IF ReadersGone(m) THEN [m EXCEPT !.w = TRUE] ELSE [m EXCEPT !.pending = TRUE]
Locked(m) == [m EXCEPT !.w = TRUE, !.pending = FALSE]
(* Faulty variant: the write lock is not released.                         *)
UnlockMissing(m) == m
Unlock(m) == [m EXCEPT !.w = FALSE]
RLock(m) == [m EXCEPT !.readers = @ + 1]
RUnlock(m) == [m EXCEPT !.readers = @ - 1]

(* Faulty variant: the least degraded state of the two.                    *)
compareStateLeastDegraded(stateA, stateB) ==
  IF stateA = StateUp \/ stateB = StateUp THEN StateUp
  ELSE IF stateA = StateWarn \/ stateB = StateWarn THEN StateWarn
  ELSE StateDown

(* compareState: the most degraded state of the two.                       *)
compareState(stateA, stateB) ==
  IF stateA = StateDown \/ stateB = StateDown THEN StateDown
  ELSE IF stateA = StateWarn \/ stateB = StateWarn THEN StateWarn
  ELSE StateUp

(* Faulty variant: a placeholder that reads as healthy.                    *)
initialStatusUp == CheckStatus(Status(StateUp, NoDetails), ZeroTime)

(* The placeholder Monitor.Monitor writes before the goroutine starts.     *)
initialStatus == CheckStatus(Status(StateDown, NoDetails), ZeroTime)

(* Faulty variant: the timeout is never applied.                           *)
ProbeCtxNeverWrapped(ctx, check) == RegCtx(ctx)

(* The context handed to check.Func: executeCheckWithTimeout wraps the     *)
(* registration context when Timeout > 0, executeCheck passes it as is.    *)
ProbeCtx(ctx, check) ==
  IF check.Timeout > 0 THEN WithTimeout(RegCtx(ctx), check.Timeout)
  ELSE RegCtx(ctx)

(* ctx.Done() is closed: the root was cancelled or the deadline passed.    *)
Done(c) == (c.root \in Ctxs /\ cancelled[c.root]) \/ c.deadline = 0

(* Faulty variant: the Timestamp is left at its zero value.                *)
executeCheckUnstamped(status) == CheckStatus(status, ZeroTime)

(* Faulty variant: only the State of the returned Status is kept.          *)
executeCheckDropsDetails(status) == CheckStatus(Status(status.State, NoDetails), now)

(* executeCheck: the status check.Func returned, stamped with time.Now().  *)
executeCheck(status) == CheckStatus(status, now)

(* ------------------------- caller operations --------------------------- *)
FreeTasks == {t \in Tasks : tasks[t].pc = "unused"}
NextTask == CHOOSE t \in FreeTasks : \A u \in FreeTasks : t <= u

Registering == {d \in Callers : callers[d].pc \in {"mon_locking", "mon_locked"}}

(* Monitor.Monitor(ctx, check) is entered (check is passed by value) and   *)
(* setCheckStatus(check.Name, initialStatus) calls mtx.Lock().             *)
MonitorLock(c, ctx, check) ==
  /\ callers[c].pc = "idle"
  /\ Cardinality(FreeTasks) > Cardinality(Registering)
  /\ WriterFree(mtx)
  /\ mtx' = Lock(mtx)
  /\ callers' = [callers EXCEPT ![c].pc = IF mtx'.w THEN "mon_locked" ELSE "mon_locking",
                                ![c].check = check, ![c].ctx = ctx]
  /\ UNCHANGED <<checkStatuses, cancelled, now, tasks>>

(* Faulty variant: a registration ends the polling of the checks that     *)
(* were registered under the same name before.                             *)
MonitorGoReplaces(c) ==
  /\ callers[c].pc = "mon_locked"
  /\ checkStatuses' = Put(checkStatuses, callers[c].check.Name, initialStatus)
  /\ mtx' = [mtx EXCEPT !.w = FALSE]
  /\ tasks' = [t \in Tasks |->
                 IF t = NextTask
                 THEN [IdleTask EXCEPT !.pc = "select", !.check = callers[c].check,
                                       !.callerCheck = callers[c].check,
                                       !.ctx = callers[c].ctx]
                 ELSE IF tasks[t].check.Name = callers[c].check.Name
                 THEN [tasks[t] EXCEPT !.pc = "stopped"]
                 ELSE tasks[t]]
  /\ callers' = [callers EXCEPT ![c].pc = "idle", ![c].check = NoCheck, ![c].ctx = "none"]
  /\ UNCHANGED <<cancelled, now>>

(* A call of Monitor.Monitor with a context and a list of checks.          *)
MonitorCall(c, ctx, checks) ==
  /\ Accepts(checks)
  /\ MonitorLock(c, ctx, checks[1])

(* Faulty variant: the placeholder is stored only under a name the cache   *)
(* does not hold yet.                                                      *)
MonitorGoKeepsExisting(c) ==
  /\ callers[c].pc = "mon_locked"
  /\ checkStatuses' = IF callers[c].check.Name \in DOMAIN checkStatuses
                      THEN checkStatuses
                      ELSE Put(checkStatuses, callers[c].check.Name, initialStatus)
  /\ mtx' = Unlock(mtx)
  /\ tasks' = [tasks EXCEPT ![NextTask] =
                 [IdleTask EXCEPT !.pc = "select", !.check = callers[c].check,
                                  !.callerCheck = callers[c].check,
                                  !.ctx = callers[c].ctx]]
  /\ callers' = [callers EXCEPT ![c].pc = "idle", ![c].check = NoCheck, ![c].ctx = "none"]
  /\ UNCHANGED <<cancelled, now>>

(* The placeholder is stored, the mutex released, the polling goroutine    *)
(* started, and Monitor.Monitor returns.                                   *)
MonitorGo(c) ==
  /\ callers[c].pc = "mon_locked"
  /\ checkStatuses' = Put(checkStatuses, callers[c].check.Name, initialStatus)
  /\ mtx' = Unlock(mtx)
  /\ tasks' = [tasks EXCEPT ![NextTask] =
                 [IdleTask EXCEPT !.pc = "select", !.check = callers[c].check,
                                  !.callerCheck = callers[c].check,
                                  !.ctx = callers[c].ctx]]
  /\ callers' = [callers EXCEPT ![c].pc = "idle", ![c].check = NoCheck, ![c].ctx = "none"]
  /\ UNCHANGED <<cancelled, now>>

(* Faulty variant: the aggregate starts from StateDown.                    *)
CheckRLockStartsDown(c) ==
  /\ callers[c].pc = "idle"
  /\ CanRLock(mtx)
  /\ mtx' = RLock(mtx)
  /\ callers' = [callers EXCEPT ![c].pc = "chk_range", ![c].state = StateDown,
                                ![c].statuses = EmptyMap]
  /\ UNCHANGED <<checkStatuses, cancelled, now, tasks>>

(* Monitor.Check is entered: state := StateUp, an empty copy, mtx.RLock(). *)
CheckRLock(c) ==
  /\ callers[c].pc = "idle"
  /\ CanRLock(mtx)
  /\ mtx' = RLock(mtx)
  /\ callers' = [callers EXCEPT ![c].pc = "chk_range", ![c].state = StateUp,
                                ![c].statuses = EmptyMap]
  /\ UNCHANGED <<checkStatuses, cancelled, now, tasks>>

(* One iteration of `for checkName, checkStatus := range mtr.checkStatuses'*)
(* (Go visits the keys in an unspecified order).                           *)
CheckRange(c) ==
  /\ callers[c].pc = "chk_range"
  /\ \E checkName \in (DOMAIN checkStatuses) \ (DOMAIN callers[c].statuses) :
       callers' = [callers EXCEPT
         ![c].state = compareState(@, checkStatuses[checkName].Status.State),
         ![c].statuses = Put(@, checkName, checkStatuses[checkName])]
  /\ UNCHANGED <<checkStatuses, mtx, cancelled, now, tasks>>

(* The MonitorStatus built from the local state and copy once the range   *)
(* is exhausted.                                                           *)
monitorStatus(c) ==
  [State |-> callers[c].state, CheckStatuses |-> callers[c].statuses]

RangeDone(c) ==
  /\ callers[c].pc = "chk_range"
  /\ (DOMAIN checkStatuses) \ (DOMAIN callers[c].statuses) = {}

(* The range is exhausted: monitorStatus is built, mtx.RUnlock(), and      *)
(* Monitor.Check returns it.                                               *)
CheckReturn(c) ==
  /\ RangeDone(c)
  /\ mtx' = RUnlock(mtx)
  /\ callers' = [callers EXCEPT ![c].pc = "idle", ![c].state = StateUp,
                                ![c].statuses = EmptyMap]
  /\ UNCHANGED <<checkStatuses, cancelled, now, tasks>>

(* Monitor.Check returns as in CheckReturn and the caller keeps the        *)
(* MonitorStatus it got.                                                   *)
CheckReturnKeep(c) ==
  /\ RangeDone(c)
  /\ mtx' = RUnlock(mtx)
  /\ callers' = [callers EXCEPT ![c].pc = "holding"]
  /\ UNCHANGED <<checkStatuses, cancelled, now, tasks>>

(* Faulty variant: Monitor.Check hands out the cache itself.               *)
ReturnedMapInternal(c) == "mtr.checkStatuses"

(* The map object monitorStatus.CheckStatuses refers to: the local map     *)
(* made in Monitor.Check and filled by the range.                          *)
ReturnedMap(c) == "copy"

(* What the caller reads through the MonitorStatus it holds.               *)
HeldStatuses(c) ==
  IF ReturnedMap(c) = "copy" THEN callers[c].statuses ELSE checkStatuses

(* An entry only the caller writes.                                        *)
CallerMark == CheckStatus(Status(StateWarn, "edited"), ZeroTime)

(* The caller stores into the map of the MonitorStatus it holds.           *)
CallerEdit(c) ==
  /\ callers[c].pc = "holding"
  /\ \E n \in Names :
       /\ \A k \in DOMAIN HeldStatuses(c) : HeldStatuses(c)[k] # CallerMark
       /\ IF ReturnedMap(c) = "copy"
          THEN /\ callers' = [callers EXCEPT ![c].statuses = Put(@, n, CallerMark)]
               /\ UNCHANGED checkStatuses
          ELSE /\ checkStatuses' = Put(checkStatuses, n, CallerMark)
               /\ UNCHANGED callers
  /\ UNCHANGED <<mtx, cancelled, now, tasks>>

(* The caller lets go of the MonitorStatus.                                *)
Discard(c) ==
  /\ callers[c].pc = "holding"
  /\ callers' = [callers EXCEPT ![c].pc = "idle", ![c].state = StateUp,
                                ![c].statuses = EmptyMap]
  /\ UNCHANGED <<checkStatuses, mtx, cancelled, now, tasks>>

(* What the caller assigns to the TTL and Timeout of its Check variable.   *)
Reassigned(check) ==
  [check EXCEPT !.TTL = IF @ = DefaultTTL THEN 2 ELSE DefaultTTL,
                !.Timeout = IF @ = 0 THEN 1 ELSE 0]

(* After registration the caller assigns to the fields of the Check        *)
(* variable it passed to Monitor.Monitor.                                  *)
CallerSetsCheck(t) ==
  /\ tasks[t].pc # "unused"
  /\ tasks[t].callerCheck = tasks[t].check
  /\ tasks' = [tasks EXCEPT ![t].callerCheck = Reassigned(@)]
  /\ UNCHANGED <<checkStatuses, mtx, cancelled, now, callers>>

(* The caller cancels a registration context.                              *)
Cancel(ctx) ==
  /\ ~cancelled[ctx]
  /\ cancelled' = [cancelled EXCEPT ![ctx] = TRUE]
  /\ UNCHANGED <<checkStatuses, mtx, now, tasks, callers>>

(* --------------------------- polling goroutine ------------------------- *)
(* Faulty variants of Stop: falling through to the default case; clearing  *)
(* the entry on exit; watching every context instead of the own one.       *)
StopFallsThrough(t) ==
  /\ tasks[t].pc = "select"
  /\ cancelled[tasks[t].ctx]
  /\ tasks' = [tasks EXCEPT ![t].pc = "exec", ![t].running = @ + 1,
                            ![t].pctx = RegCtx(tasks[t].ctx)]
  /\ UNCHANGED <<checkStatuses, mtx, cancelled, now, callers>>

StopResetsEntry(t) ==
  /\ tasks[t].pc = "select"
  /\ cancelled[tasks[t].ctx]
  /\ tasks' = [tasks EXCEPT ![t].pc = "stopped"]
  /\ checkStatuses' = [checkStatuses EXCEPT ![tasks[t].check.Name] =
                         CheckStatus(Status(StateDown, NoDetails), ZeroTime)]
  /\ UNCHANGED <<mtx, cancelled, now, callers>>

StopOnAnyCancel(t) ==
  /\ tasks[t].pc = "select"
  /\ \E ctx \in Ctxs : cancelled[ctx]
  /\ tasks' = [tasks EXCEPT ![t].pc = "stopped"]
  /\ UNCHANGED <<checkStatuses, mtx, cancelled, now, callers>>


(* Faulty variant: a task that exits takes the entry of its check along.   *)
StopDeletesEntry(t) ==
  /\ tasks[t].pc = "select"
  /\ cancelled[tasks[t].ctx]
  /\ tasks' = [tasks EXCEPT ![t].pc = "stopped"]
  /\ checkStatuses' = [n \in (DOMAIN checkStatuses) \ {tasks[t].check.Name} |->
                         checkStatuses[n]]
  /\ UNCHANGED <<mtx, cancelled, now, callers>>

(* select: case <-ctx.Done(): return                                       *)
Stop(t) ==
  /\ tasks[t].pc = "select"
  /\ cancelled[tasks[t].ctx]
  /\ tasks' = [tasks EXCEPT ![t].pc = "stopped"]
  /\ UNCHANGED <<checkStatuses, mtx, cancelled, now, callers>>

(* Faulty variant: a poll is due when the TTL has passed, whether or not   *)
(* the previous invocation has returned.                                   *)
PollOverlapping(t) ==
  /\ tasks[t].pc \in {"select", "exec"}
  /\ tasks[t].running < 2
  /\ ~cancelled[tasks[t].ctx]
  /\ tasks' = [tasks EXCEPT ![t].pc = "exec", ![t].running = @ + 1,
                            ![t].pctx = ProbeCtx(tasks[t].ctx, tasks[t].check)]
  /\ UNCHANGED <<checkStatuses, mtx, cancelled, now, callers>>

(* Faulty variant: the entry is set back to the placeholder at each poll.  *)
PollReseeds(t) ==
  /\ tasks[t].pc = "select"
  /\ ~cancelled[tasks[t].ctx]
  /\ tasks' = [tasks EXCEPT ![t].pc = "exec", ![t].running = @ + 1,
                            ![t].pctx = ProbeCtx(tasks[t].ctx, tasks[t].check)]
  /\ checkStatuses' = Put(checkStatuses, tasks[t].check.Name, initialStatus)
  /\ UNCHANGED <<mtx, cancelled, now, callers>>

(* Faulty variant: the probes of all checks are run one at a time.         *)
PollOneAtATime(t) ==
  /\ tasks[t].pc = "select"
  /\ ~cancelled[tasks[t].ctx]
  /\ \A u \in Tasks : tasks[u].pc # "exec"
  /\ tasks' = [tasks EXCEPT ![t].pc = "exec", ![t].running = @ + 1,
                            ![t].pctx = ProbeCtx(tasks[t].ctx, tasks[t].check)]
  /\ UNCHANGED <<checkStatuses, mtx, cancelled, now, callers>>

(* select: default: check.Func is called with its context.                 *)
Poll(t) ==
  /\ tasks[t].pc = "select"
  /\ ~cancelled[tasks[t].ctx]
  /\ tasks' = [tasks EXCEPT ![t].pc = "exec", ![t].running = @ + 1,
                            ![t].pctx = ProbeCtx(tasks[t].ctx, tasks[t].check)]
  /\ UNCHANGED <<checkStatuses, mtx, cancelled, now, callers>>

(* The two halves of Poll, for the interleavings in which another          *)
(* goroutine runs between them: the select finds ctx.Done() open and takes *)
(* the default case; then executeCheck calls check.Func.                   *)
SelectDefault(t) ==
  /\ tasks[t].pc = "select"
  /\ ~cancelled[tasks[t].ctx]
  /\ tasks' = [tasks EXCEPT ![t].pc = "default"]
  /\ UNCHANGED <<checkStatuses, mtx, cancelled, now, callers>>

CallFunc(t) ==
  /\ tasks[t].pc = "default"
  /\ tasks' = [tasks EXCEPT ![t].pc = "exec", ![t].running = @ + 1,
                            ![t].pctx = ProbeCtx(tasks[t].ctx, tasks[t].check)]
  /\ UNCHANGED <<checkStatuses, mtx, cancelled, now, callers>>

(* Faulty variant: cancelTimeout is not called when the probe returns.     *)
FuncReturnLeaks(t) ==
  /\ tasks[t].pc = "exec"
  /\ Funcs[tasks[t].check.Func].returns
  /\ tasks' = [tasks EXCEPT ![t].pc = "set", ![t].running = @ - 1,
                 ![t].pending = executeCheck(Funcs[tasks[t].check.Func].normal)]
  /\ UNCHANGED <<checkStatuses, mtx, cancelled, now, callers>>

(* check.Func returns because its work is finished.                        *)
FuncReturn(t) ==
  /\ tasks[t].pc = "exec"
  /\ Funcs[tasks[t].check.Func].returns
  /\ tasks' = [tasks EXCEPT ![t].pc = "set", ![t].pctx = NoCtx, ![t].running = @ - 1,
                 ![t].pending = executeCheck(Funcs[tasks[t].check.Func].normal)]
  /\ UNCHANGED <<checkStatuses, mtx, cancelled, now, callers>>

(* Faulty variant: the library aborts the invocation on Done.              *)
ReturnsOnDoneAlways(t) == TRUE

(* executeCheck calls check.Func synchronously: a closed Done channel ends *)
(* the invocation only if the function itself watches it.                  *)
ReturnsOnDone(t) == Funcs[tasks[t].check.Func].honours

(* Faulty variant: on Done the library stops waiting for the probe and     *)
(* makes up a status of its own.                                           *)
FuncCancelledSubstitutes(t) ==
  /\ tasks[t].pc = "exec"
  /\ Done(tasks[t].pctx)
  /\ tasks' = [tasks EXCEPT ![t].pc = "set", ![t].pctx = NoCtx, ![t].running = @ - 1,
                 ![t].pending = executeCheck(Status(StateDown, "timeout"))]
  /\ UNCHANGED <<checkStatuses, mtx, cancelled, now, callers>>

(* check.Func returns early because it saw ctx.Done().                     *)
FuncCancelled(t) ==
  /\ tasks[t].pc = "exec"
  /\ ReturnsOnDone(t)
  /\ Done(tasks[t].pctx)
  /\ tasks' = [tasks EXCEPT ![t].pc = "set", ![t].pctx = NoCtx, ![t].running = @ - 1,
                 ![t].pending = executeCheck(Funcs[tasks[t].check.Func].onCancel)]
  /\ UNCHANGED <<checkStatuses, mtx, cancelled, now, callers>>

(* Faulty variant: the panic is recovered and reported as StateDown.       *)
FuncPanicRecovered(t) ==
  /\ tasks[t].pc = "exec"
  /\ Funcs[tasks[t].check.Func].panics
  /\ tasks' = [tasks EXCEPT ![t].pc = "set", ![t].pctx = NoCtx, ![t].running = @ - 1,
                 ![t].pending = CheckStatus(Status(StateDown, NoDetails), now)]
  /\ UNCHANGED <<checkStatuses, mtx, cancelled, now, callers>>

(* A goroutine of a process that has ended: it is nowhere, it runs no      *)
(* probe and it has no timers.                                             *)
Dead(task, pc) ==
  [task EXCEPT !.pc = IF @ = "unused" THEN @ ELSE pc, !.pctx = NoCtx,
               !.running = 0, !.timer = 0]

(* check.Func panics.  The panic unwinds executeCheck (and runs the        *)
(* deferred cancelTimeout of executeCheckWithTimeout) and the goroutine,   *)
(* which has no recover: the Go runtime ends the process, and with it      *)
(* every goroutine and the lock.                                           *)
FuncPanic(t) ==
  /\ tasks[t].pc = "exec"
  /\ Funcs[tasks[t].check.Func].panics
  /\ tasks' = [u \in Tasks |->
                 Dead(tasks[u], IF u = t THEN "panicked" ELSE "dead")]
  /\ callers' = [c \in Callers |-> [callers[c] EXCEPT !.pc = "dead"]]
  /\ mtx' = [w |-> FALSE, pending |-> FALSE, readers |-> 0]
  /\ UNCHANGED <<checkStatuses, cancelled, now>>

(* The process has ended on an unrecovered panic.                          *)
Crashed == \E t \in Tasks : tasks[t].pc = "panicked"

(* setCheckStatus(check.Name, checkStatus) calls mtx.Lock().              *)
SetLock(t) ==
  /\ tasks[t].pc = "set"
  /\ WriterFree(mtx)
  /\ mtx' = Lock(mtx)
  /\ tasks' = [tasks EXCEPT ![t].pc = IF mtx'.w THEN "locked" ELSE "locking"]
  /\ UNCHANGED <<checkStatuses, cancelled, now, callers>>

(* Faulty variant: the result is dropped instead of stored.                *)
SetStoreSkipsWrite(t) ==
  /\ tasks[t].pc = "locked"
  /\ mtx' = [mtx EXCEPT !.w = FALSE]
  /\ tasks' = [tasks EXCEPT ![t].pc = "sleep", ![t].timer = tasks[t].check.TTL,
                            ![t].pending = IdleTask.pending, ![t].wrote = TRUE]
  /\ UNCHANGED <<checkStatuses, cancelled, now, callers>>

(* Faulty variant: the goroutine sleeps for the TTL of the caller's        *)
(* variable instead of its own copy of the check.                          *)
SetStoreCallerTTL(t) ==
  /\ tasks[t].pc = "locked"
  /\ checkStatuses' = Put(checkStatuses, tasks[t].check.Name, tasks[t].pending)
  /\ mtx' = [mtx EXCEPT !.w = FALSE]
  /\ tasks' = [tasks EXCEPT ![t].pc = "sleep", ![t].timer = tasks[t].callerCheck.TTL,
                            ![t].pending = IdleTask.pending, ![t].wrote = TRUE]
  /\ UNCHANGED <<cancelled, now, callers>>

(* Faulty variant: the timestamp is taken again when the entry is written. *)
SetStoreRestamps(t) ==
  /\ tasks[t].pc = "locked"
  /\ checkStatuses' = Put(checkStatuses, tasks[t].check.Name,
                          CheckStatus(tasks[t].pending.Status, now))
  /\ mtx' = Unlock(mtx)
  /\ tasks' = [tasks EXCEPT ![t].pc = "sleep", ![t].timer = tasks[t].check.TTL,
                            ![t].pending = IdleTask.pending, ![t].wrote = TRUE]
  /\ UNCHANGED <<cancelled, now, callers>>

(* The status is stored, the mutex released, and time.Sleep(TTL) begins.   *)
SetStore(t) ==
  /\ tasks[t].pc = "locked"
  /\ checkStatuses' = Put(checkStatuses, tasks[t].check.Name, tasks[t].pending)
  /\ mtx' = Unlock(mtx)
  /\ tasks' = [tasks EXCEPT ![t].pc = "sleep", ![t].timer = tasks[t].check.TTL,
                            ![t].pending = IdleTask.pending, ![t].wrote = TRUE]
  /\ UNCHANGED <<cancelled, now, callers>>

(* Faulty variant: the sleep is cut short.                                 *)
WakeEarly(t) ==
  /\ tasks[t].pc = "sleep"
  /\ tasks' = [tasks EXCEPT ![t].pc = "select", ![t].timer = 0]
  /\ UNCHANGED <<checkStatuses, mtx, cancelled, now, callers>>

(* Faulty variant: the sleep also ends when the context is cancelled.      *)
WakeOnCancel(t) ==
  /\ tasks[t].pc = "sleep"
  /\ tasks[t].timer = 0 \/ cancelled[tasks[t].ctx]
  /\ tasks' = [tasks EXCEPT ![t].pc = "select", ![t].timer = 0]
  /\ UNCHANGED <<checkStatuses, mtx, cancelled, now, callers>>

(* time.Sleep(check.TTL) is over.                                          *)
Wake(t) ==
  /\ tasks[t].pc = "sleep"
  /\ tasks[t].timer = 0
  /\ tasks' = [tasks EXCEPT ![t].pc = "select"]
  /\ UNCHANGED <<checkStatuses, mtx, cancelled, now, callers>>

(* The readers have left: the mtx.Lock() of the pending writer (a polling  *)
(* goroutine in setCheckStatus, or a caller in Monitor.Monitor) returns.   *)
LockGranted ==
  /\ mtx.pending
  /\ ReadersGone(mtx)
  /\ mtx' = Locked(mtx)
  /\ tasks' = [t \in Tasks |->
                 IF tasks[t].pc = "locking" THEN [tasks[t] EXCEPT !.pc = "locked"]
                 ELSE tasks[t]]
  /\ callers' = [c \in Callers |->
                   IF callers[c].pc = "mon_locking"
                   THEN [callers[c] EXCEPT !.pc = "mon_locked"]
                   ELSE callers[c]]
  /\ UNCHANGED <<checkStatuses, cancelled, now>>

(* ------------------------------- time ---------------------------------- *)
Dec(n) == IF n > 0 THEN n - 1 ELSE n
Ticking == \E t \in Tasks : tasks[t].timer > 0 \/ tasks[t].pctx.deadline > 0
Tick ==
  /\ now < MaxTime \/ Ticking
  /\ now' = IF now < MaxTime THEN now + 1 ELSE now
  /\ tasks' = [t \in Tasks |->
                 [tasks[t] EXCEPT !.timer = Dec(@), !.pctx.deadline = Dec(@)]]
  /\ UNCHANGED <<checkStatuses, mtx, cancelled, callers>>

(* The steps of the program when the goroutines in C make the calls.       *)
NextOf(C) ==
  \/ \E c \in C, call \in MonitorCalls : MonitorCall(c, call[1], call[2])
  \/ \E c \in C : MonitorGo(c)
  \/ \E c \in C : CheckRLock(c)
  \/ \E c \in C : CheckRange(c)
  \/ \E c \in C : CheckReturn(c)
  \/ \E ctx \in Ctxs : Cancel(ctx)
  \/ \E t \in Tasks : Stop(t)
  \/ \E t \in Tasks : Poll(t)
  \/ \E t \in Tasks : FuncReturn(t)
  \/ \E t \in Tasks : FuncCancelled(t)
  \/ \E t \in Tasks : SetLock(t)
  \/ \E t \in Tasks : SetStore(t)
  \/ \E t \in Tasks : Wake(t)
  \/ LockGranted
  \/ Tick

Next == NextOf(Callers)

Spec == Init /\ [][Next]_vars

(* One step of polling goroutine t; one step of a call c has in progress.  *)
TaskStep(t) ==
  \/ Stop(t) \/ Poll(t) \/ FuncReturn(t) \/ FuncCancelled(t)
  \/ SetLock(t) \/ SetStore(t) \/ Wake(t)
CallStep(c) ==
  \/ MonitorGo(c) \/ CheckRange(c) \/ CheckReturn(c)

(* Scheduling: the Go runtime keeps running every goroutine that can run,  *)
(* time passes, a probe that finishes its work returns, and the writers'   *)
(* mutex inside sync.RWMutex does not starve a goroutine that waits for it *)
(* (hence strong fairness: SetLock is enabled only while that mutex is     *)
(* free).  Callers are free to stop calling, but a call in progress        *)
(* completes.                                                              *)
Fairness ==
  /\ WF_vars(Tick)
  /\ WF_vars(LockGranted)
  /\ \A t \in Tasks : SF_vars(TaskStep(t))
  /\ \A c \in Callers : WF_vars(CallStep(c))

(* The progress properties are checked with one goroutine making the calls *)
(* (it registers, reads and cancels) beside the polling goroutines.        *)
FairNext == NextOf({1})
FairSpec == Init /\ [][FairNext]_vars /\ Fairness

(* The program with a caller (goroutine 1) that keeps and edits the        *)
(* MonitorStatus it got while another goroutine (2) registers checks.      *)
KeepNext ==
  \/ NextOf({1})
  \/ CheckReturnKeep(1)
  \/ CallerEdit(1)
  \/ Discard(1)
  \/ \E call \in MonitorCalls : MonitorCall(2, call[1], call[2])
  \/ MonitorGo(2)
KeepSpec == Init /\ [][KeepNext]_vars

(* The program with a caller that reassigns the Check variables it has     *)
(* registered.                                                             *)
ReassignNext ==
  \/ NextOf({1})
  \/ \E t \in Tasks : CallerSetsCheck(t)
ReassignSpec == Init /\ [][ReassignNext]_vars

(* The program when probes that panic are registered too.                  *)
PanicNext ==
  \/ NextOf({1})
  \/ \E r \in PanicRegistrations : MonitorCall(1, r[1], <<r[2]>>)
  \/ \E t \in Tasks : FuncPanic(t)
PanicSpec == Init /\ [][PanicNext]_vars

(* The program with the select and the call of the probe as separate       *)
(* steps, so that a cancellation can fall between them.                    *)
GapNext ==
  \/ NextOf({1})
  \/ \E t \in Tasks : SelectDefault(t)
  \/ \E t \in Tasks : CallFunc(t)
GapSpec == Init /\ [][GapNext]_vars

(* ======================= properties of the model ======================= *)
Started(t) == tasks[t].pc # "unused"
StatesOf(m) == {m[n].Status.State : n \in DOMAIN m}
(* Down if any entry is Down, otherwise Warn if any is Warn, otherwise Up. *)
Worst(m) ==
  IF StateDown \in StatesOf(m) THEN StateDown
  ELSE IF StateWarn \in StatesOf(m) THEN StateWarn
  ELSE StateUp
UniqueName(t) ==
  \A u \in Tasks : (u # t /\ Started(u)) => tasks[u].check.Name # tasks[t].check.Name

(* C1: whatever the cache holds and in whatever order Monitor.Check visits *)
(* its entries, the State of the MonitorStatus it returns is Down if any   *)
(* cached state is Down, else Warn if any is Warn, else Up.                *)
C1_OverallStateIsWorst ==
  \A c \in Callers :
    RangeDone(c) => monitorStatus(c).State = Worst(checkStatuses)

(* C1 witness: a Check is about to return Warn over a two-entry cache that *)
(* holds one Warn and one Up entry.                                        *)
C1_Witness ==
  \E c \in Callers :
    /\ RangeDone(c)
    /\ DOMAIN checkStatuses = Names
    /\ StatesOf(checkStatuses) = {StateWarn, StateUp}
    /\ monitorStatus(c).State = StateWarn

(* C2 as stated: from the return of Monitor.Monitor for a check until that *)
(* check's own first probe result is stored, every Monitor.Check returns   *)
(* the Down placeholder under the check's name and Down overall.           *)
C2_PlaceholderUntilOwnWrite ==
  \A t \in Tasks, c \in Callers :
    (Started(t) /\ ~tasks[t].wrote /\ RangeDone(c)) =>
      /\ tasks[t].check.Name \in DOMAIN monitorStatus(c).CheckStatuses
      /\ monitorStatus(c).CheckStatuses[tasks[t].check.Name] = initialStatus
      /\ monitorStatus(c).State = StateDown

(* C2 amended: the same, for a check whose name no other registered check  *)
(* shares.                                                                 *)
C2_PlaceholderUntilFirstWrite ==
  \A t \in Tasks, c \in Callers :
    (Started(t) /\ ~tasks[t].wrote /\ UniqueName(t) /\ RangeDone(c)) =>
      /\ tasks[t].check.Name \in DOMAIN monitorStatus(c).CheckStatuses
      /\ monitorStatus(c).CheckStatuses[tasks[t].check.Name] = initialStatus
      /\ monitorStatus(c).State = StateDown

(* C2 witness: a Check is about to return while a registered check with a  *)
(* unique name is inside its first probe, another check has stored Up.     *)
C2_Witness ==
  \E t \in Tasks, c \in Callers :
    /\ Started(t) /\ ~tasks[t].wrote /\ UniqueName(t) /\ RangeDone(c)
    /\ tasks[t].pc = "exec"
    /\ \E n \in DOMAIN checkStatuses : checkStatuses[n].Status.State = StateUp

(* C3: while a Check holds the read lock the entries it has copied equal   *)
(* the cache, and the MonitorStatus it returns has the whole cache as of   *)
(* that instant with State the worst state of its own entries.             *)
C3_ConsistentSnapshot ==
  \A c \in Callers :
    /\ callers[c].pc = "chk_range" =>
         \A n \in DOMAIN callers[c].statuses :
           n \in DOMAIN checkStatuses /\ callers[c].statuses[n] = checkStatuses[n]
    /\ RangeDone(c) =>
         /\ monitorStatus(c).CheckStatuses = checkStatuses
         /\ monitorStatus(c).State = Worst(monitorStatus(c).CheckStatuses)

(* C3 witness: a Check has copied one of two entries while a polling task  *)
(* waits for the write lock with a result that differs from the cache.     *)
C3_Witness ==
  \E c \in Callers, t \in Tasks :
    /\ callers[c].pc = "chk_range"
    /\ Cardinality(DOMAIN callers[c].statuses) = 1
    /\ DOMAIN checkStatuses = Names
    /\ tasks[t].pc = "set"
    /\ tasks[t].pending # checkStatuses[tasks[t].check.Name]

(* C8: a running probe of a check with Timeout > 0 holds a context derived *)
(* from the registration context that carries a deadline; with Timeout = 0 *)
(* it holds the registration context itself, without deadline.             *)
C8_DeadlineIffTimeout ==
  \A t \in Tasks :
    tasks[t].pc = "exec" =>
      IF tasks[t].check.Timeout > 0
      THEN /\ tasks[t].pctx.derived
           /\ tasks[t].pctx.root = tasks[t].ctx
           /\ tasks[t].pctx.deadline \in 0..tasks[t].check.Timeout
      ELSE tasks[t].pctx = RegCtx(tasks[t].ctx)

(* C8 witness: a probe with a deadline and a probe without run together.   *)
C8_Witness ==
  \E t, u \in Tasks :
    /\ tasks[t].pc = "exec" /\ tasks[t].check.Timeout > 0
    /\ tasks[u].pc = "exec" /\ tasks[u].check.Timeout = 0

(* ---------------------------- fair scheduling -------------------------- *)
Returns(t) == Funcs[tasks[t].check.Func].returns
CtxCancelled(t) == Started(t) /\ cancelled[tasks[t].ctx]
Results(t) == {Funcs[tasks[t].check.Func].normal, Funcs[tasks[t].check.Func].onCancel}
(* The cache entry of t's name is a result of t's probe, stamped.          *)
HoldsResult(t) ==
  /\ tasks[t].wrote
  /\ tasks[t].check.Name \in DOMAIN checkStatuses
  /\ checkStatuses[tasks[t].check.Name].Status \in Results(t)
  /\ checkStatuses[tasks[t].check.Name].Timestamp # ZeroTime

(* C4: under fair scheduling, a registered check whose probe returns and   *)
(* whose registration context is not cancelled eventually has the status   *)
(* its probe returned in the cache, with a non-zero timestamp.             *)
C4_FirstResultArrives ==
  \A t \in Tasks :
    (Started(t) /\ Returns(t)) ~> (CtxCancelled(t) \/ HoldsResult(t))

(* C4 witness: the probe result of a check replaced the placeholder while  *)
(* the registration context is not cancelled.                              *)
C4_Witness ==
  \E t \in Tasks :
    /\ HoldsResult(t) /\ ~cancelled[tasks[t].ctx]
    /\ tasks[t].pc = "sleep"
    /\ checkStatuses[tasks[t].check.Name].Status.State # StateDown

Stopped(t) == tasks[t].pc = "stopped"
StoppedStays == \A t \in Tasks : Stopped(t) => tasks'[t] = tasks[t]

(* C5 as stated: once the registration context is cancelled the polling    *)
(* task eventually stops, and a stopped task never runs its probe or       *)
(* stores a result again.                                                  *)
C5_AlwaysStopsAfterCancel ==
  /\ \A t \in Tasks : CtxCancelled(t) ~> Stopped(t)
  /\ [][StoppedStays]_vars

(* C5 amended: once the registration context is cancelled, the polling     *)
(* task of a check whose probe function returns eventually stops; a        *)
(* stopped task never runs its probe or stores a result again.             *)
C5_StopsAfterCancelIfProbeReturns ==
  /\ \A t \in Tasks : (CtxCancelled(t) /\ Returns(t)) ~> Stopped(t)
  /\ [][StoppedStays]_vars

(* C5 witness: a task that stored a result has stopped after its context   *)
(* was cancelled.                                                          *)
C5_Witness ==
  \E t \in Tasks : Stopped(t) /\ tasks[t].wrote /\ cancelled[tasks[t].ctx]

(* The entry of a stopped check with a unique name is its last result.     *)
StoppedKeepsResult ==
  \A t \in Tasks :
    (Stopped(t) /\ tasks[t].wrote /\ UniqueName(t)) =>
      /\ tasks[t].check.Name \in DOMAIN checkStatuses
      /\ checkStatuses[tasks[t].check.Name].Status \in Results(t)
      /\ checkStatuses[tasks[t].check.Name].Timestamp # ZeroTime
CancelOrStopStep ==
  \/ cancelled' # cancelled
  \/ \E t \in Tasks : ~Stopped(t) /\ tasks'[t].pc = "stopped"

(* C6: a step that cancels a registration context, and the step in which a *)
(* polling task exits on it, leave the cache as it is; the result a check  *)
(* (of unique name) stored last is still in the cache once it has stopped. *)
C6_CancelKeepsCache ==
  [][(CancelOrStopStep => checkStatuses' = checkStatuses) /\ StoppedKeepsResult']_vars

(* C6 witness: after cancellation and exit of its task, the entry of a     *)
(* check still holds the Up result stored before.                          *)
C6_Witness ==
  \E t \in Tasks :
    /\ Stopped(t) /\ tasks[t].wrote /\ UniqueName(t)
    /\ checkStatuses[tasks[t].check.Name].Status.State = StateUp

OtherCtxCancelled(t) ==
  Started(t) /\ \E ctx \in Ctxs : ctx # tasks[t].ctx /\ cancelled[ctx]

(* C7: a polling task exits only on its own registration context; while    *)
(* that context is not cancelled, the cancellation of another context does *)
(* not keep the task (of a probe that returns) from storing results again  *)
(* and again.                                                              *)
C7_OtherContextsUnaffected ==
  /\ [][\A t \in Tasks : (~Stopped(t) /\ tasks'[t].pc = "stopped") =>
                           cancelled[tasks[t].ctx]]_vars
  /\ \A t \in Tasks :
       (OtherCtxCancelled(t) /\ Returns(t)) ~>
          (CtxCancelled(t) \/ tasks[t].pc = "locked")

(* C7 witness: one context is cancelled and its task has stopped, a task   *)
(* of the other context is past its first result and storing another.      *)
C7_Witness ==
  \E t, u \in Tasks :
    /\ Stopped(u) /\ Started(t) /\ tasks[t].ctx # tasks[u].ctx
    /\ ~cancelled[tasks[t].ctx]
    /\ tasks[t].wrote /\ tasks[t].pc = "locked"

Normal(t) == Funcs[tasks[t].check.Func].normal
OnCancel(t) == Funcs[tasks[t].check.Func].onCancel
Returned(t) == tasks[t].pc \in {"set", "locking", "locked"}
(* The probe of t came back on the expiry of its deadline.                 *)
TimedOut(t) ==
  /\ Returned(t) /\ tasks[t].check.Timeout > 0 /\ ~cancelled[tasks[t].ctx]
  /\ tasks[t].pending.Status = OnCancel(t) /\ OnCancel(t) # Normal(t)

(* C9: what a probe returns is what gets stored, also when it returns on   *)
(* the expiry of its deadline; no step of a polling task or of time        *)
(* cancels a registration context; a check without timeout whose context   *)
(* is not cancelled gets the normal result of the probe; and after a       *)
(* timed-out probe the task polls again.                                   *)
C9_TimeoutResultIsCached ==
  /\ [][/\ \A t \in Tasks :
            (tasks[t].pc = "locked" /\ tasks'[t].pc = "sleep") =>
               /\ checkStatuses'[tasks[t].check.Name] = tasks[t].pending
               /\ tasks'[t].timer = tasks[t].check.TTL
        /\ (tasks' # tasks \/ now' # now) => cancelled' = cancelled
        /\ \A t \in Tasks :
             (Returned(t) /\ tasks[t].check.Timeout = 0 /\ ~cancelled[tasks[t].ctx])
                => tasks[t].pending.Status = Normal(t)]_vars
  /\ \A t \in Tasks : TimedOut(t) ~> (CtxCancelled(t) \/ tasks[t].pc = "exec")

(* C9 witness: of two checks running the same probe, the one with timeout  *)
(* stored the Warn its probe returned on expiry and sleeps, the one        *)
(* without stored Up; neither context is cancelled.                        *)
C9_Witness ==
  \E t, u \in Tasks :
    /\ tasks[t].check.Func = "slow" /\ tasks[t].check.Timeout > 0
    /\ tasks[u].check.Func = "slow" /\ tasks[u].check.Timeout = 0
    /\ tasks[t].pc = "sleep" /\ tasks[u].pc = "sleep"
    /\ ~cancelled["ctx1"] /\ ~cancelled["ctx2"]
    /\ checkStatuses[tasks[t].check.Name].Status = OnCancel(t)
    /\ checkStatuses[tasks[u].check.Name].Status = Normal(u)

(* A writer of the entry n holds the write lock.                           *)
WriterOf(n) ==
  \/ \E u \in Tasks : tasks[u].pc = "locked" /\ tasks[u].check.Name = n
  \/ \E c \in Callers : callers[c].pc = "mon_locked" /\ callers[c].check.Name = n
Ignoring(t) == tasks[t].pc = "exec" /\ ~Funcs[tasks[t].check.Func].honours

(* C10: a probe that ignores its context leaves its invocation only by     *)
(* returning its own result, deadline expired or not; while it runs, the   *)
(* entry of its check changes only if another writer of that name stores.  *)
C10_ExpiryNeverAborts ==
  [][\A t \in Tasks :
       Ignoring(t) =>
         /\ \/ tasks'[t].pc = "exec"
            \/ /\ tasks'[t].pc = "set" /\ Returns(t)
               /\ tasks'[t].pending = CheckStatus(Normal(t), now)
         /\ WriterOf(tasks[t].check.Name)
            \/ checkStatuses'[tasks[t].check.Name] = checkStatuses[tasks[t].check.Name]]_vars

(* C10 witness: the deadline of a running probe that ignores its context   *)
(* has expired, the entry still holds the result of the previous poll.     *)
C10_Witness ==
  \E t \in Tasks :
    /\ Ignoring(t) /\ tasks[t].pctx.deadline = 0 /\ tasks[t].wrote
    /\ checkStatuses[tasks[t].check.Name].Status = Normal(t)

(* C11: each polling task has at most one invocation of its probe function *)
(* in flight, and has one exactly while it is inside executeCheck; a new   *)
(* invocation begins only from the select of the loop, after the previous  *)
(* one has returned and its result has been stored.                        *)
C11_OneProbeInFlight ==
  /\ [](\A t \in Tasks :
          /\ tasks[t].running <= 1
          /\ tasks[t].running = 1 <=> tasks[t].pc = "exec")
  /\ [][\A t \in Tasks :
          tasks'[t].running > tasks[t].running =>
            tasks[t].pc = "select" /\ tasks[t].running = 0]_vars

(* C11 witness: a task that has stored a result is inside its next         *)
(* invocation, past the deadline, while the other task runs its probe too. *)
C11_Witness ==
  \E t, u \in Tasks :
    /\ t # u /\ tasks[t].wrote /\ tasks[t].pc = "exec" /\ tasks[t].running = 1
    /\ tasks[t].pctx.deadline = 0
    /\ tasks[u].pc = "exec"

(* The processes inside the critical section of setCheckStatus.            *)
InSetCheckStatus ==
  {<<"task", t>> : t \in {u \in Tasks : tasks[u].pc = "locked"}} \cup
  {<<"caller", c>> : c \in {d \in Callers : callers[d].pc = "mon_locked"}}
Hung(t) == tasks[t].pc = "exec" /\ ~Returns(t)

(* C12: the write lock is held only inside setCheckStatus, never by a task *)
(* that runs its probe or sleeps; under fair scheduling the lock becomes   *)
(* free again whenever it is taken or awaited, and every Monitor.Check and *)
(* Monitor.Monitor call in progress returns, whatever probes are blocked.  *)
C12_CallsCompleteLockNotHeld ==
  /\ [](mtx.w => Cardinality(InSetCheckStatus) = 1)
  /\ [](\A t \in Tasks :
          tasks[t].pc \in {"exec", "sleep"} => <<"task", t>> \notin InSetCheckStatus)
  /\ (mtx.w \/ mtx.pending) ~> (CanRLock(mtx) /\ WriterFree(mtx))
  /\ \A c \in Callers : (callers[c].pc # "idle") ~> (callers[c].pc = "idle")

(* C12 witness: a Monitor.Check is about to return a two-entry cache while *)
(* one probe is blocked for good, past its deadline, and another task      *)
(* sleeps.                                                                 *)
C12_Witness ==
  \E t, u \in Tasks, c \in Callers :
    /\ Hung(t) /\ tasks[t].pctx.deadline = 0
    /\ tasks[u].pc = "sleep" /\ tasks[u].timer > 0
    /\ RangeDone(c) /\ DOMAIN monitorStatus(c).CheckStatuses = Names

(* C13: a task inside a probe that never returns stays there, so it polls  *)
(* no more; under fair scheduling every other task whose probe returns and *)
(* whose context is not cancelled keeps coming back to store a result.     *)
C13_HungProbeBlocksOnlyItself ==
  /\ [][\A t \in Tasks : Hung(t) => tasks'[t] = [tasks[t] EXCEPT
             !.pctx.deadline = tasks'[t].pctx.deadline]]_vars
  /\ \A t, u \in Tasks :
       (t # u /\ Hung(t) /\ Started(u) /\ Returns(u)) ~>
          (CtxCancelled(u) \/ tasks[u].pc = "locked")

(* C13 witness: one probe is blocked for good while another check, past    *)
(* its first result, holds the write lock to store the next one.           *)
C13_Witness ==
  \E t, u \in Tasks :
    /\ Hung(t) /\ tasks[t].pctx.deadline = 0
    /\ tasks[u].wrote /\ tasks[u].pc = "locked" /\ ~cancelled[tasks[u].ctx]
    /\ tasks[u].pending.Timestamp = MaxTime

Holding(c) == callers[c].pc = "holding"
(* A step of the monitor's own code or of time, not of the caller's hands. *)
MonitorStep == checkStatuses' # checkStatuses \/ tasks' # tasks \/ mtx' # mtx \/ now' # now

(* C14: while a caller holds a MonitorStatus, its State and what it reads  *)
(* through its CheckStatuses map change by no write to the cache, no       *)
(* registration and no other step of the monitor; what the caller stores   *)
(* into that map never shows in the cache, and that store leaves the cache *)
(* as it is.                                                               *)
C14_IndependentSnapshot ==
  /\ [][\A c \in Callers :
          (Holding(c) /\ callers'[c].pc = "holding") =>
             /\ callers'[c].state = callers[c].state
             /\ MonitorStep => HeldStatuses(c)' = HeldStatuses(c)
             /\ callers'[c] # callers[c] => checkStatuses' = checkStatuses]_vars
  /\ [](\A n \in DOMAIN checkStatuses : checkStatuses[n] # CallerMark)

(* C14 witness: the caller holds a MonitorStatus into whose map it stored  *)
(* an entry; since the call returned another check was registered and the  *)
(* cache entry of the edited name got a probe result.                      *)
C14_Witness ==
  \E c \in Callers, n \in Names :
    /\ Holding(c) /\ n \in DOMAIN callers[c].statuses
    /\ callers[c].statuses[n] = CallerMark
    /\ n \in DOMAIN checkStatuses /\ checkStatuses[n].Timestamp = MaxTime
    /\ (DOMAIN checkStatuses) \ (DOMAIN callers[c].statuses) # {}

(* C20: the check a polling task works with never changes after the        *)
(* registration and is the value that was registered; the caller's         *)
(* variable changes only by the caller's own assignment; each sleep lasts  *)
(* the TTL and each probe context carries the Timeout of the registered    *)
(* value, whatever the caller has assigned to its variable since.          *)
C20_MonitorKeepsOwnCopy ==
  /\ [][\A t \in Tasks :
          /\ Started(t) => tasks'[t].check = tasks[t].check
          /\ (Started(t) /\ tasks'[t].callerCheck # tasks[t].callerCheck) =>
                 /\ tasks' = [tasks EXCEPT ![t].callerCheck = tasks'[t].callerCheck]
                 /\ UNCHANGED <<checkStatuses, mtx, cancelled, now, callers>>
          /\ (~Started(t) /\ Started(t)') => tasks'[t].check = tasks'[t].callerCheck
          /\ (tasks[t].pc = "locked" /\ tasks'[t].pc = "sleep") =>
                 tasks'[t].timer = tasks[t].check.TTL
          /\ (tasks[t].pc = "select" /\ tasks'[t].pc = "exec") =>
                 tasks'[t].pctx = ProbeCtx(tasks[t].ctx, tasks[t].check)]_vars
  /\ [](\A t \in Tasks :
          Started(t) => \E r \in Registrations : tasks[t].check = r[2] /\ tasks[t].ctx = r[1])

(* C20 witness: the caller has reassigned TTL and Timeout of a registered  *)
(* check; its task, past a result, sleeps for the TTL of the registration. *)
C20_Witness ==
  \E t \in Tasks :
    /\ Started(t) /\ tasks[t].callerCheck # tasks[t].check
    /\ tasks[t].callerCheck.TTL # tasks[t].check.TTL
    /\ tasks[t].wrote /\ tasks[t].pc = "sleep" /\ tasks[t].timer = tasks[t].check.TTL

(* The Monitor.Check calls that iterate the cache.                         *)
Iterating == {c \in Callers : callers[c].pc = "chk_range"}

(* C15: at most one process is inside the store of setCheckStatus, none    *)
(* while a Monitor.Check iterates the cache, and the cache changes only in *)
(* a step of the one process that holds the write lock.                    *)
C15_MutualExclusion ==
  /\ [](Cardinality(InSetCheckStatus) <= 1)
  /\ [](InSetCheckStatus # {} => Iterating = {})
  /\ [](mtx.readers = Cardinality(Iterating))
  /\ [][checkStatuses' # checkStatuses =>
          Cardinality(InSetCheckStatus) = 1 /\ Iterating = {}]_vars

(* C15 witness: two Monitor.Check calls iterate the cache, a polling task  *)
(* waits for them as pending writer and another task is about to ask for   *)
(* the write lock.                                                         *)
C15_Witness ==
  \E t, u \in Tasks :
    /\ Cardinality(Iterating) = 2
    /\ tasks[t].pc = "locking" /\ tasks[u].pc = "set"
    /\ tasks[t].check.Name = tasks[u].check.Name

(* The step in which polling task t stores its result.                     *)
Stores(t) == tasks[t].pc = "locked" /\ tasks'[t].pc = "sleep"
Entry(t) == checkStatuses[tasks[t].check.Name]

(* C16 as stated: no polling task replaces the entry of its check by a     *)
(* result with an older timestamp, and after a store the entry is the      *)
(* result of the execution just completed.                                 *)
C16_NeverReplacedByOlder ==
  [][\A t \in Tasks :
       Stores(t) => /\ tasks[t].pending.Timestamp >= Entry(t).Timestamp
                    /\ Entry(t)' = tasks[t].pending]_vars

(* C16 amended: the same for a check whose name no other registered check  *)
(* shares; for such a check the timestamp of the entry never decreases.    *)
C16_NeverReplacedByOlderIfUnique ==
  [][\A t \in Tasks :
       /\ (Stores(t) /\ UniqueName(t)) =>
             /\ tasks[t].pending.Timestamp >= Entry(t).Timestamp
             /\ Entry(t)' = tasks[t].pending
       /\ (Started(t) /\ UniqueName(t)') =>
             Entry(t)'.Timestamp >= Entry(t).Timestamp]_vars

(* C16 witness: a check of unique name whose probe ignores its timeout is  *)
(* about to replace the result of its previous execution by a newer one.   *)
C16_Witness ==
  \E t \in Tasks :
    /\ UniqueName(t) /\ tasks[t].pc = "locked" /\ tasks[t].wrote
    /\ tasks[t].check.Func = "ignore" /\ tasks[t].check.Timeout > 0
    /\ Entry(t).Timestamp # ZeroTime
    /\ tasks[t].pending.Timestamp > Entry(t).Timestamp

SameName(t, u) ==
  t # u /\ Started(t) /\ Started(u) /\ tasks[t].check.Name = tasks[u].check.Name
(* A stamped result of the probe of t.                                     *)
ResultOf(cs, t) == cs.Status \in Results(t) /\ cs.Timestamp # ZeroTime

(* C17 as stated: of two checks registered under one name (tasks are       *)
(* numbered in the order of registration) Monitor.Check reports the status *)
(* of the one registered last: its placeholder or a result of its probe.   *)
C17_LastRegistrationWins ==
  \A t, u \in Tasks, c \in Callers :
    (SameName(t, u) /\ t < u /\ RangeDone(c)) =>
       LET cs == monitorStatus(c).CheckStatuses[tasks[u].check.Name]
       IN  cs = initialStatus \/ ResultOf(cs, u)

(* C17 amended: of two checks registered under one name both polling tasks *)
(* keep coming back to store while their contexts are not cancelled; each  *)
(* store and each registration overwrites the shared entry, which changes  *)
(* in no other way, and Monitor.Check reports the entry as it is: the last *)
(* write wins.                                                             *)
C17_LastWriteWins ==
  /\ [][/\ \A t \in Tasks : Stores(t) => Entry(t)' = tasks[t].pending
        /\ \A c \in Callers :
             (callers[c].pc = "mon_locked" /\ callers'[c].pc = "idle") =>
                checkStatuses'[callers[c].check.Name] = initialStatus
        /\ \A n \in DOMAIN checkStatuses :
             checkStatuses'[n] # checkStatuses[n] => WriterOf(n)]_vars
  /\ [](\A c \in Callers : RangeDone(c) => monitorStatus(c).CheckStatuses = checkStatuses)
  /\ \A t, u \in Tasks :
       (SameName(t, u) /\ Returns(t)) ~> (CtxCancelled(t) \/ tasks[t].pc = "locked")

(* C17 witness: two checks share a name and both have stored results; the  *)
(* Monitor.Check about to return reports a result of the one registered    *)
(* first, which the probe of the one registered last never returns.        *)
C17_Witness ==
  \E t, u \in Tasks, c \in Callers :
    /\ SameName(t, u) /\ t < u /\ tasks[t].wrote /\ tasks[u].wrote
    /\ ~cancelled[tasks[t].ctx] /\ ~cancelled[tasks[u].ctx]
    /\ RangeDone(c)
    /\ ResultOf(monitorStatus(c).CheckStatuses[tasks[t].check.Name], t)
    /\ ~ResultOf(monitorStatus(c).CheckStatuses[tasks[t].check.Name], u)

(* The Monitor.Monitor call of c returns.                                  *)
MonitorReturns(c) == callers[c].pc = "mon_locked" /\ callers'[c].pc = "idle"

(* C18: every Monitor.Monitor call callers write, with one check or with   *)
(* more, is accepted, and when a call returns the placeholder is seeded    *)
(* under the name of the check passed and one polling task is started for  *)
(* it.                                                                     *)
C18_CallTakesOneOrMoreChecks ==
  /\ [](\A call \in MonitorCalls : Accepts(call[2]))
  /\ [][\A c \in Callers :
          MonitorReturns(c) =>
             /\ checkStatuses'[callers[c].check.Name] = initialStatus
             /\ \E t \in Tasks : /\ ~Started(t) /\ Started(t)'
                                  /\ tasks'[t].check = callers[c].check
                                  /\ tasks'[t].pc = "select"]_vars

(* C19: the CheckStatus executeCheck builds carries the Status the probe   *)
(* returned (its normal result, or its result on Done if it watches the    *)
(* context and the context is done); the store puts exactly that Status    *)
(* into the cache; every entry is the placeholder or a result of a probe   *)
(* registered under its name, and Monitor.Check reports the entries as     *)
(* they are.                                                               *)
C19_StatusStoredUnchanged ==
  /\ [][\A t \in Tasks :
          /\ (tasks[t].pc = "exec" /\ tasks'[t].pc = "set") =>
                \/ tasks'[t].pending.Status = Normal(t)
                \/ /\ tasks'[t].pending.Status = OnCancel(t)
                   /\ ReturnsOnDone(t) /\ Done(tasks[t].pctx)
          /\ Returned(t) /\ Returned(t)' => tasks'[t].pending = tasks[t].pending
          /\ Stores(t) => Entry(t)'.Status = tasks[t].pending.Status]_vars
  /\ [](\A n \in DOMAIN checkStatuses :
          \/ checkStatuses[n] = initialStatus
          \/ \E t \in Tasks : /\ Started(t) /\ tasks[t].check.Name = n
                               /\ ResultOf(checkStatuses[n], t))
  /\ [](\A c \in Callers :
          RangeDone(c) =>
            \A n \in DOMAIN checkStatuses :
              monitorStatus(c).CheckStatuses[n].Status = checkStatuses[n].Status)

(* C19 witness: the Monitor.Check about to return reports the Up status    *)
(* with the details one probe returned and the Warn status another probe   *)
(* returned on the expiry of its deadline.                                 *)
C19_Witness ==
  \E c \in Callers, n, k \in Names :
    /\ RangeDone(c)
    /\ n \in DOMAIN callers[c].statuses /\ k \in DOMAIN callers[c].statuses
    /\ monitorStatus(c).CheckStatuses[n].Status = Status(StateUp, "late")
    /\ monitorStatus(c).CheckStatuses[k].Status = Status(StateWarn, NoDetails)

(* The order of the loop body: probe, store, sleep.                        *)
LoopOrder(t) ==
  /\ tasks[t].pc = "exec" => tasks'[t].pc \in {"exec", "set"}
  /\ tasks[t].pc = "set" => tasks'[t].pc \in {"set", "locking", "locked"}
  /\ tasks[t].pc = "locking" => tasks'[t].pc \in {"locking", "locked"}
  /\ tasks[t].pc = "locked" => tasks'[t].pc \in {"locked", "sleep"}
  /\ tasks[t].pc = "sleep" => tasks'[t].pc \in {"sleep", "select"}

C22_EmptyMonitorIsUp ==
  \A c \in Callers :
    (RangeDone(c) /\ \A t \in Tasks : ~Started(t)) =>
       /\ checkStatuses = New
       /\ monitorStatus(c).State = StateUp
       /\ monitorStatus(c).CheckStatuses = EmptyMap
       /\ DOMAIN monitorStatus(c).CheckStatuses = {}

(* C22 witness: a Monitor.Check is about to return from a monitor without  *)
(* checks, while the first registration waits for the write lock.          *)
C22_Witness ==
  \E c, d \in Callers :
    /\ RangeDone(c) /\ checkStatuses = New /\ \A t \in Tasks : ~Started(t)
    /\ callers[d].pc = "mon_locking"

Panics(t) == tasks[t].pc = "exec" /\ Funcs[tasks[t].check.Func].panics
(* The task changes otherwise than by the passing of time.                 *)
Moves(t) == tasks'[t] # [tasks[t] EXCEPT !.pctx.deadline = tasks'[t].pctx.deadline]

(* C23 as stated: a probe that panics leaves its invocation with a Down    *)
(* status to store, its task goes on, and the process does not end.        *)
C23_PanicIsCaught ==
  /\ [][\A t \in Tasks :
          (Panics(t) /\ Moves(t)) =>
             /\ tasks'[t].pc = "set"
             /\ tasks'[t].pending.Status.State = StateDown]_vars
  /\ [](~Crashed)

(* C23 amended: a panic of a probe function is not caught: no Down status  *)
(* is made of it and nothing is stored; it ends the process, so from then  *)
(* on no polling task and no call takes another step.                      *)
C23_PanicEndsProcess ==
  /\ [][\A t \in Tasks :
          (Panics(t) /\ Moves(t)) =>
             /\ tasks'[t].pc \in {"panicked", "dead"}
             /\ \E u \in Tasks : tasks'[u].pc = "panicked"
             /\ \A u \in Tasks :
                  Started(u) => tasks'[u].pc \in {"panicked", "dead"}
             /\ \A c \in Callers : callers'[c].pc = "dead"
             /\ checkStatuses' = checkStatuses]_vars
  /\ [][Crashed => UNCHANGED <<tasks, callers, checkStatuses, mtx>>]_vars

(* C23 witness: a probe has panicked and ended the process while another   *)
(* check had stored a result and a Monitor.Check had copied one of two     *)
(* entries.                                                                *)
C23_Witness ==
  \E t, u \in Tasks, c \in Callers :
    /\ tasks[t].pc = "panicked"
    /\ tasks[u].wrote /\ tasks[u].pc = "dead"
    /\ callers[c].pc = "dead" /\ Cardinality(DOMAIN callers[c].statuses) = 1
    /\ checkStatuses[tasks[t].check.Name] = initialStatus
    /\ DOMAIN checkStatuses = Names

(* The context the task was registered with has been cancelled.            *)
Cancelled(t) == Started(t) /\ cancelled[tasks[t].ctx]

(* C24: a task whose context is cancelled leaves the sleep only when the   *)
(* TTL has run out, and from the select it then only exits, beginning no   *)
(* probe and storing nothing, which it can always do; a probe that comes   *)
(* back under a cancelled context is followed by the store of its result   *)
(* and a sleep of the whole TTL; a task exits only from the select, and    *)
(* only when its context is cancelled.                                     *)
C24_CancelSeenAtLoopTop ==
  /\ [][\A t \in Tasks :
          /\ (Cancelled(t) /\ tasks[t].pc = "sleep") =>
                /\ tasks'[t].pc \in {"sleep", "select"}
                /\ tasks'[t].pc = "select" => tasks[t].timer = 0
                /\ tasks'[t].timer \in {tasks[t].timer, tasks[t].timer - 1}
                /\ tasks'[t].running = tasks[t].running
          /\ (Cancelled(t) /\ tasks[t].pc = "select") =>
                /\ tasks'[t].pc \in {"select", "stopped"}
                /\ tasks'[t].running = tasks[t].running
                /\ tasks'[t].pctx = NoCtx
          /\ (Cancelled(t) /\ tasks[t].pc \in {"exec", "set", "locking", "locked"}) =>
                /\ LoopOrder(t)
                /\ tasks'[t].pc = "set" => tasks[t].pc \in {"exec", "set"}
                /\ Stores(t) => /\ Entry(t)' = tasks[t].pending
                                /\ tasks'[t].timer = tasks[t].check.TTL
          /\ (Started(t) /\ ~Stopped(t) /\ Stopped(t)') =>
                tasks[t].pc = "select" /\ Cancelled(t)
          /\ Stopped(t) => tasks'[t] = tasks[t]]_vars
  /\ [](\A t \in Tasks :
          (Cancelled(t) /\ tasks[t].pc = "select") => ENABLED Stop(t))

(* C24 witness: a check without timeout, cancelled while its probe ran,    *)
(* has stored what the probe returned on the cancellation and is asleep    *)
(* with TTL left, its context cancelled.                                   *)
C24_Witness ==
  \E t \in Tasks :
    /\ Cancelled(t) /\ tasks[t].pc = "sleep" /\ tasks[t].timer > 0
    /\ tasks[t].check.Func = "slow" /\ tasks[t].check.Timeout = 0
    /\ Entry(t).Status = OnCancel(t)

(* How far a polling task is through an iteration of its loop.             *)
Rank(pc) ==
  CASE pc = "default" -> 1
    [] pc = "exec" -> 2
    [] pc = "set" -> 3
    [] pc = "locking" -> 4
    [] pc = "locked" -> 5
    [] pc = "sleep" -> 6
    [] pc = "select" -> 7
    [] pc = "stopped" -> 8
    [] OTHER -> 0
Invokes(t) == tasks'[t].running > tasks[t].running

(* C25: a cancelled context stays cancelled, and a task whose context is   *)
(* cancelled never goes back in its loop: the probe is invoked only in the *)
(* step from the default case to the call and the cache is written, apart  *)
(* from registrations, only in the step from the store to the sleep, so    *)
(* each happens at most once on the way from any point of the loop to the  *)
(* exit.                                                                   *)
C25_OneMoreProbeOneMoreWrite ==
  /\ [][\A ctx \in Ctxs : cancelled[ctx] => cancelled'[ctx]]_vars
  /\ [][\A t \in Tasks :
          Cancelled(t) =>
            /\ Rank(tasks'[t].pc) >= Rank(tasks[t].pc)
            /\ Invokes(t) => tasks[t].pc = "default" /\ tasks'[t].pc = "exec"
            /\ tasks'[t].running <= 1
            /\ tasks'[t].wrote # tasks[t].wrote => Stores(t)]_vars
  /\ [][checkStatuses' # checkStatuses =>
          \/ \E t \in Tasks : Stores(t)
          \/ \E c \in Callers : MonitorReturns(c)]_vars

(* C25 witness: the context was cancelled after the select took the        *)
(* default case and before the probe is called: the call is still to come. *)
C25_Witness ==
  \E t \in Tasks :
    /\ Cancelled(t) /\ tasks[t].pc = "default" /\ tasks[t].wrote
    /\ ENABLED CallFunc(t)

(* The derived deadline contexts not yet released, and the invocations of  *)
(* probes with a timeout that are in flight.                               *)
LiveDerived == {t \in Tasks : tasks[t].pctx.derived}
TimedInFlight == {t \in Tasks : tasks[t].running > 0 /\ tasks[t].check.Timeout > 0}

(* C26: a derived context is live only while the timed invocation it was   *)
(* made for is in flight, whichever way that invocation ends (return,      *)
(* return on Done, panic), so there are never more of them than timed      *)
(* invocations in flight; it is derived from the registration context of   *)
(* its task, so it is done as soon as that context is cancelled.           *)
C26_DerivedContextReleased ==
  /\ [](LiveDerived \subseteq TimedInFlight)
  /\ [](Cardinality(LiveDerived) <= Cardinality(TimedInFlight))
  /\ [](\A t \in LiveDerived :
          /\ tasks[t].pc = "exec" /\ tasks[t].running = 1
          /\ tasks[t].pctx.root = tasks[t].ctx
          /\ tasks[t].pctx.deadline <= tasks[t].check.Timeout
          /\ cancelled[tasks[t].ctx] => Done(tasks[t].pctx))
  /\ [][\A t \in Tasks :
          (tasks[t].pc = "exec" /\ tasks'[t].pc # "exec") =>
             ~tasks'[t].pctx.derived /\ tasks'[t].running = 0]_vars
  /\ [][\A t \in Tasks :
          (Invokes(t) /\ tasks[t].check.Timeout > 0) =>
             tasks'[t].pctx = WithTimeout(RegCtx(tasks[t].ctx), tasks[t].check.Timeout)]_vars

(* C26 witness: the registration context of a timed probe in flight was    *)
(* cancelled, its derived context is done before its deadline; another     *)
(* timed probe has returned and its derived context is released.           *)
C26_Witness ==
  \E t, u \in Tasks :
    /\ t \in LiveDerived /\ cancelled[tasks[t].ctx]
    /\ tasks[t].pctx.deadline > 0 /\ Done(tasks[t].pctx)
    /\ tasks[u].check.Timeout > 0 /\ tasks[u].pc = "set"
    /\ u \notin LiveDerived

(* What an execution of the probe of t that has completed by now can have  *)
(* returned: its normal status if the function returns at all; the status  *)
(* it gives on Done if it watches Done and its context can have been done, *)
(* by cancellation or by a deadline.                                       *)
Returnable(t) ==
  (IF Returns(t) THEN {Normal(t)} ELSE {})
  \cup (IF ReturnsOnDone(t) /\ (cancelled[tasks[t].ctx] \/ tasks[t].check.Timeout > 0)
        THEN {OnCancel(t)} ELSE {})
(* cs is what a completed execution of the probe of t left.                *)
CompletedBy(cs, t) ==
  /\ tasks[t].wrote
  /\ cs.Status \in Returnable(t)
  /\ cs.Timestamp \in 1..now
  /\ (cs.Status # Normal(t) /\ ~cancelled[tasks[t].ctx]) =>
        cs.Timestamp > tasks[t].check.Timeout

(* C27: every entry of the cache is the placeholder, or the stamped status *)
(* of a completed execution of the probe of a check registered under its   *)
(* name; an entry that is Up or Warn is of the second kind; and the result *)
(* a task carries to the cache is of that kind too.                        *)
C27_PlaceholderOrProbeResult ==
  /\ \A n \in DOMAIN checkStatuses :
        \/ checkStatuses[n] =
             [Status |-> [State |-> StateDown, Details |-> NoDetails],
              Timestamp |-> ZeroTime]
        \/ \E t \in Tasks : tasks[t].check.Name = n /\ CompletedBy(checkStatuses[n], t)
  /\ \A n \in DOMAIN checkStatuses :
        checkStatuses[n].Status.State \in {StateUp, StateWarn} =>
          \E t \in Tasks :
            /\ tasks[t].check.Name = n /\ tasks[t].wrote
            /\ \E st \in Returnable(t) : st.State = checkStatuses[n].Status.State
  /\ \A t \in Tasks :
        Returned(t) => /\ tasks[t].pending.Status \in Returnable(t)
                       /\ tasks[t].pending.Timestamp \in 1..now

(* C27 witness: one name holds the placeholder although a check is         *)
(* registered under it, the other the Warn status its probe returned when  *)
(* its context was cancelled.                                              *)
C27_Witness ==
  \E t, u \in Tasks :
    /\ Started(t) /\ Entry(t) = initialStatus /\ ~tasks[t].wrote
    /\ tasks[u].wrote /\ Entry(u).Status = OnCancel(u)
    /\ Entry(u).Status.State = StateWarn /\ tasks[u].check.Timeout = 0

(* The probe of t returns in this step.                                    *)
ProbeReturns(t) == tasks[t].pc = "exec" /\ tasks'[t].pc = "set"

(* C28: when a probe returns, its status is stamped with the time of that  *)
(* moment; the pair is carried unchanged to the store, which writes it as  *)
(* a whole, not before the time of the stamp; a read copies whole entries, *)
(* and what it is about to return is the cache as it stands.               *)
C28_StatusAndTimestampOfOneExecution ==
  /\ [][\A t \in Tasks :
          /\ ProbeReturns(t) =>
                /\ tasks'[t].pending.Timestamp = now
                /\ tasks'[t].pending.Status \in Returnable(t)
                /\ tasks'[t].running = 0
          /\ (Returned(t) /\ Returned(t)') => tasks'[t].pending = tasks[t].pending
          /\ Stores(t) => /\ Entry(t)' = tasks[t].pending
                          /\ tasks[t].pending.Timestamp <= now]_vars
  /\ [][\A c \in Callers :
          (callers[c].pc = "chk_range" /\ callers'[c].pc = "chk_range") =>
            \A n \in DOMAIN callers'[c].statuses :
              callers'[c].statuses[n] = checkStatuses[n]]_vars
  /\ [](\A c \in Callers :
          RangeDone(c) => monitorStatus(c).CheckStatuses = checkStatuses)

(* C28 witness: a Monitor.Check is about to return an entry stamped before *)
(* now, while the probe of that check has returned again and its newer     *)
(* result waits for the lock.                                              *)
C28_Witness ==
  \E c \in Callers, t \in Tasks :
    /\ RangeDone(c) /\ tasks[t].wrote
    /\ monitorStatus(c).CheckStatuses[tasks[t].check.Name].Timestamp \in 1..(now - 1)
    /\ tasks[t].pc = "locking"
    /\ tasks[t].pending.Timestamp > Entry(t).Timestamp

(* The names of the checks registered so far.                              *)
Registered == {tasks[t].check.Name : t \in {u \in Tasks : Started(u)}}

(* C29: the names in the cache are the names registered so far; no step    *)
(* removes a name; the cache changes only when a registration or a polling *)
(* task stores, and then only under the name of the check registered or    *)
(* polled.                                                                 *)
C29_NamesAreThoseRegistered ==
  /\ [](DOMAIN checkStatuses = Registered)
  /\ [][DOMAIN checkStatuses \subseteq DOMAIN checkStatuses']_vars
  /\ [][checkStatuses' # checkStatuses =>
          \/ \E t \in Tasks :
               /\ Stores(t)
               /\ \A n \in DOMAIN checkStatuses' :
                    n # tasks[t].check.Name =>
                      n \in DOMAIN checkStatuses /\ checkStatuses'[n] = checkStatuses[n]
          \/ \E c \in Callers :
               /\ MonitorReturns(c)
               /\ \A n \in DOMAIN checkStatuses' :
                    n # callers[c].check.Name =>
                      n \in DOMAIN checkStatuses /\ checkStatuses'[n] = checkStatuses[n]]_vars

(* C29 witness: two names are registered, the task of one has exited, the  *)
(* task of the other polls on, and a read has copied both entries.         *)
C29_Witness ==
  \E t, u \in Tasks, c \in Callers :
    /\ Stopped(t) /\ tasks[u].pc = "exec"
    /\ tasks[t].check.Name # tasks[u].check.Name
    /\ RangeDone(c)
    /\ DOMAIN monitorStatus(c).CheckStatuses = {tasks[t].check.Name, tasks[u].check.Name}

(* The cache holds a probe result under the name being registered by c.    *)
HoldsProbeResult(c) ==
  /\ callers[c].check.Name \in DOMAIN checkStatuses
  /\ checkStatuses[callers[c].check.Name].Timestamp # ZeroTime

(* C30: a registration that returns leaves the placeholder under the name  *)
(* of its check, whatever the cache held there; over a probe result that   *)
(* takes the timestamp of the entry back to zero and its state to Down,    *)
(* and the tasks registered before go on as they were.                     *)
C30_RegistrationResetsEntry ==
  [][\A c \in Callers :
       MonitorReturns(c) =>
         /\ checkStatuses'[callers[c].check.Name] =
              [Status |-> [State |-> StateDown, Details |-> NoDetails],
               Timestamp |-> ZeroTime]
         /\ HoldsProbeResult(c) =>
              /\ checkStatuses'[callers[c].check.Name].Timestamp
                   < checkStatuses[callers[c].check.Name].Timestamp
              /\ DOMAIN checkStatuses' = DOMAIN checkStatuses
         /\ \A t \in Tasks : Started(t) => tasks'[t] = tasks[t]]_vars

(* C30 witness: the MonitorStatus a caller holds from its last read shows  *)
(* a check Up with a timestamp; the cache, which the next read will copy,  *)
(* holds the placeholder under that name after another registration,       *)
(* though no check registered under the name has a probe that returns      *)
(* Down.                                                                   *)
C30_Witness ==
  \E c \in Callers, n \in Names :
    /\ Holding(c) /\ n \in DOMAIN callers[c].statuses
    /\ callers[c].statuses[n].Status.State = StateUp
    /\ callers[c].statuses[n].Timestamp # ZeroTime
    /\ checkStatuses[n] = initialStatus
    /\ \A t \in Tasks :
         tasks[t].check.Name = n => \A st \in Returnable(t) : st.State # StateDown

(* ================= the pointer-based Checker variant =================== *)
(* Checker{Checks []*Check}: the caller keeps the Check values, the Checker *)
(* and its polling goroutines hold pointers to them, and the result of a   *)
(* probe is stored in the fields Status and LastExecuted of the Check      *)
(* itself.  There is no lock.  tasks[t] is the polling goroutine of        *)
(* chckr.Checks[t] and tasks[t].callerCheck the Check it points to;        *)
(* callers[1] makes the calls.  The cache and the mutex of the Monitor     *)
(* stay as New() made them.                                                *)

(* NewCheck of the variant: Status and LastExecuted at their zero values.  *)
CheckerNewCheck(name, func) ==
  [Name |-> name, Func |-> func, TTL |-> DefaultTTL, Timeout |-> 0,
   Status |-> Status(StateDown, NoDetails), LastExecuted |-> ZeroTime]

(* The values of chckr.Checks callers configure: none, one, two checks.    *)
CheckerConfigs ==
  { << >>,
    << [CheckerNewCheck("a", "slow") EXCEPT !.Timeout = 1] >>,
    << CheckerNewCheck("a", "ignore"), CheckerNewCheck("b", "slow") >>,
    << [CheckerNewCheck("a", "slow") EXCEPT !.Timeout = 1],
       [CheckerNewCheck("b", "hang") EXCEPT !.TTL = 2] >> }

(* A polling goroutine of the variant; executions is history: the pairs of *)
(* Status and LastExecuted its completed executions have produced.         *)
CheckerTask(pc, check) ==
  [pc |-> pc, ctx |-> "none", timer |-> 0, pctx |-> NoCtx,
   pending |-> CheckStatus(Status(StateDown, NoDetails), ZeroTime),
   running |-> 0, callerCheck |-> check, executions |-> {}]

(* A Checker.Check call: its locals state and checkStatuses (statuses),    *)
(* the position i of the range and the Status being copied; raced is       *)
(* history: a polling goroutine stored into a Check during the call, or    *)
(* was between the stores of one execution when the call began.            *)
CheckerCaller ==
  [pc |-> "idle", state |-> StateUp, statuses |-> EmptyMap, i |-> 1,
   status |-> Status(StateDown, NoDetails), raced |-> FALSE]

CheckerInit ==
  /\ checkStatuses = New
  /\ mtx = [w |-> FALSE, pending |-> FALSE, readers |-> 0]
  /\ cancelled = [c \in Ctxs |-> FALSE]
  /\ now = 1
  /\ \E checks \in CheckerConfigs :
       tasks = [t \in Tasks |->
                  IF t <= Len(checks) THEN CheckerTask("configured", checks[t])
                  ELSE CheckerTask("absent", NoCheck)]
  /\ callers = [c \in Callers |-> CheckerCaller]

(* chckr.Checks, as positions, and the Check a position points to.         *)
CheckerChecks == {t \in Tasks : tasks[t].pc # "absent"}
CheckAt(t) == tasks[t].callerCheck

(* Checker.Start(ctx): one goroutine per configured check.                 *)
CheckerStart(c, ctx) ==
  /\ callers[c].pc = "idle"
  /\ \E t \in Tasks : tasks[t].pc = "configured"
  /\ tasks' = [t \in Tasks |->
                 IF tasks[t].pc = "configured"
                 THEN [tasks[t] EXCEPT !.pc = "select", !.ctx = ctx]
                 ELSE tasks[t]]
  /\ UNCHANGED <<checkStatuses, mtx, cancelled, now, callers>>

(* select default: executeCheckWithTimeout when check.Timeout > 0, read    *)
(* through the pointer, executeCheck otherwise; check.Func is called.      *)
CheckerPoll(t) ==
  /\ tasks[t].pc = "select"
  /\ ~cancelled[tasks[t].ctx]
  /\ tasks' = [tasks EXCEPT ![t].pc = "exec", ![t].running = @ + 1,
                            ![t].pctx = ProbeCtx(tasks[t].ctx, CheckAt(t))]
  /\ UNCHANGED <<checkStatuses, mtx, cancelled, now, callers>>

(* check.Func returns, with its normal status or with the one it gives on  *)
(* Done; the derived context is released when executeCheck has returned.   *)
CheckerFuncReturn(t) ==
  /\ tasks[t].pc = "exec"
  /\ \E st \in (IF Funcs[CheckAt(t).Func].returns
                 THEN {Funcs[CheckAt(t).Func].normal} ELSE {})
               \cup (IF Funcs[CheckAt(t).Func].honours /\ Done(tasks[t].pctx)
                     THEN {Funcs[CheckAt(t).Func].onCancel} ELSE {}) :
       tasks' = [tasks EXCEPT ![t].pc = "store_state", ![t].running = @ - 1,
                              ![t].pending = CheckStatus(st, ZeroTime)]
  /\ UNCHANGED <<checkStatuses, mtx, cancelled, now, callers>>

(* The calls of Checker.Check in progress see a store happen.              *)
Raced ==
  [c \in Callers |->
     IF callers[c].pc = "idle" THEN callers[c] ELSE [callers[c] EXCEPT !.raced = TRUE]]

(* check.Status = ...: a plain store of a struct of several words, the     *)
(* State first, then the Details.                                          *)
StoreState(t) ==
  /\ tasks[t].pc = "store_state"
  /\ tasks' = [tasks EXCEPT ![t].pc = "store_details",
                 ![t].callerCheck.Status.State = tasks[t].pending.Status.State]
  /\ callers' = Raced
  /\ UNCHANGED <<checkStatuses, mtx, cancelled, now>>

StoreDetails(t) ==
  /\ tasks[t].pc = "store_details"
  /\ tasks' = [tasks EXCEPT ![t].pc = "store_last",
                 ![t].callerCheck.Status.Details = tasks[t].pending.Status.Details]
  /\ callers' = Raced
  /\ UNCHANGED <<checkStatuses, mtx, cancelled, now>>

(* check.LastExecuted = time.Now(); executeCheck returns, the deferred     *)
(* cancelTimeout runs, and time.Sleep(check.TTL) begins.                   *)
StoreLastExecuted(t) ==
  /\ tasks[t].pc = "store_last"
  /\ tasks' = [tasks EXCEPT ![t].pc = "sleep", ![t].pctx = NoCtx,
                 ![t].timer = CheckAt(t).TTL,
                 ![t].callerCheck.LastExecuted = now,
                 ![t].executions = @ \cup {CheckStatus(tasks[t].pending.Status, now)}]
  /\ callers' = Raced
  /\ UNCHANGED <<checkStatuses, mtx, cancelled, now>>

(* The goroutines that have stored a part of the result of an execution.   *)
MidStore == {t \in Tasks : tasks[t].pc \in {"store_details", "store_last"}}

(* Checker.Check is entered: an empty map, state := StateUp.               *)
CheckerCheckEnter(c) ==
  /\ callers[c].pc = "idle"
  /\ callers' = [callers EXCEPT ![c] =
                   [CheckerCaller EXCEPT !.pc = "range", !.raced = MidStore # {}]]
  /\ UNCHANGED <<checkStatuses, mtx, cancelled, now, tasks>>

(* state = compareState(state, check.Status.State)                         *)
ReadState(c) ==
  /\ callers[c].pc = "range"
  /\ callers[c].i \in CheckerChecks
  /\ callers' = [callers EXCEPT ![c].pc = "copy_state",
       ![c].state = compareState(@, CheckAt(callers[c].i).Status.State)]
  /\ UNCHANGED <<checkStatuses, mtx, cancelled, now, tasks>>

(* CheckStatus{Name: check.Name, Status: check.Status, LastExecuted:       *)
(* check.LastExecuted}: plain loads, the Status word by word.              *)
CopyState(c) ==
  /\ callers[c].pc = "copy_state"
  /\ callers' = [callers EXCEPT ![c].pc = "copy_details",
       ![c].status.State = CheckAt(callers[c].i).Status.State]
  /\ UNCHANGED <<checkStatuses, mtx, cancelled, now, tasks>>

CopyDetails(c) ==
  /\ callers[c].pc = "copy_details"
  /\ callers' = [callers EXCEPT ![c].pc = "copy_last",
       ![c].status.Details = CheckAt(callers[c].i).Status.Details]
  /\ UNCHANGED <<checkStatuses, mtx, cancelled, now, tasks>>

(* The last load, and checkStatuses[check.Name] = the value built.         *)
CopyLastExecuted(c) ==
  /\ callers[c].pc = "copy_last"
  /\ callers' = [callers EXCEPT ![c].pc = "range", ![c].i = @ + 1,
       ![c].statuses = Put(@, CheckAt(callers[c].i).Name,
                           [Name |-> CheckAt(callers[c].i).Name,
                            Status |-> callers[c].status,
                            LastExecuted |-> CheckAt(callers[c].i).LastExecuted])]
  /\ UNCHANGED <<checkStatuses, mtx, cancelled, now, tasks>>

(* The CheckerStatus built once the range is exhausted.                    *)
checkerStatus(c) ==
  [State |-> callers[c].state, CheckStatuses |-> callers[c].statuses]

CheckerRangeDone(c) ==
  callers[c].pc = "range" /\ callers[c].i \notin CheckerChecks

(* return &CheckerStatus{State: state, CheckStatuses: checkStatuses}       *)
CheckerCheckReturn(c) ==
  /\ CheckerRangeDone(c)
  /\ callers' = [callers EXCEPT ![c] = CheckerCaller]
  /\ UNCHANGED <<checkStatuses, mtx, cancelled, now, tasks>>

CheckerNext ==
  \/ \E ctx \in Ctxs : CheckerStart(1, ctx)
  \/ CheckerCheckEnter(1)
  \/ ReadState(1)
  \/ CopyState(1)
  \/ CopyDetails(1)
  \/ CopyLastExecuted(1)
  \/ CheckerCheckReturn(1)
  \/ \E ctx \in Ctxs : Cancel(ctx)
  \/ \E t \in Tasks : Stop(t)
  \/ \E t \in Tasks : CheckerPoll(t)
  \/ \E t \in Tasks : CheckerFuncReturn(t)
  \/ \E t \in Tasks : StoreState(t)
  \/ \E t \in Tasks : StoreDetails(t)
  \/ \E t \in Tasks : StoreLastExecuted(t)
  \/ \E t \in Tasks : Wake(t)
  \/ Tick
CheckerSpec == CheckerInit /\ [][CheckerNext]_vars

(* -------------------- properties of the Checker variant ---------------- *)
(* The execution of the probe of t completes in this step.                 *)
Completes(t) == tasks[t].pc = "store_last" /\ tasks'[t].pc = "sleep"
(* What the call of c is about to report for the check at t.               *)
Reported(c, t) == checkerStatus(c).CheckStatuses[CheckAt(t).Name]
(* The report of c is what the checks hold now, with the worst state.      *)
ReportsStored(c) ==
  /\ DOMAIN checkerStatus(c).CheckStatuses = {CheckAt(t).Name : t \in CheckerChecks}
  /\ \A t \in CheckerChecks :
       Reported(c, t) = [Name |-> CheckAt(t).Name, Status |-> CheckAt(t).Status,
                         LastExecuted |-> CheckAt(t).LastExecuted]
  /\ checkerStatus(c).State =
       Worst([t \in CheckerChecks |-> [Status |-> Reported(c, t).Status]])

(* Checker.Check puts the entry of a check into its map in this step.      *)
Reports(c) == callers[c].pc = "copy_last" /\ callers'[c].pc = "range"
(* The state and the entries of c are in keeping: one entry per configured *)
(* check, and the state the worst of theirs, Up when there is none.        *)
WorstOfReported(c) ==
  /\ DOMAIN checkerStatus(c).CheckStatuses = {CheckAt(t).Name : t \in CheckerChecks}
  /\ checkerStatus(c).State =
       Worst([t \in CheckerChecks |-> [Status |-> Reported(c, t).Status]])

(* C31: when an execution completes, the Check holds the status the probe  *)
(* returned and the time of the completion; the entry Checker.Check puts   *)
(* into its map for a check is the Status and the LastExecuted the check   *)
(* holds at that moment; and the state it is about to return is the worst  *)
(* of the states it reports, Up when no check is configured.               *)
C31_CheckReportsStoredResult ==
  /\ [][\A t \in Tasks :
          Completes(t) => /\ CheckAt(t)'.Status = tasks[t].pending.Status
                          /\ CheckAt(t)'.LastExecuted = now]_vars
  /\ [][\A c \in Callers :
          Reports(c) =>
            callers'[c].statuses[CheckAt(callers[c].i).Name] =
              [Name |-> CheckAt(callers[c].i).Name,
               Status |-> CheckAt(callers[c].i).Status,
               LastExecuted |-> CheckAt(callers[c].i).LastExecuted]]_vars
  /\ [](\A c \in Callers : CheckerRangeDone(c) => WorstOfReported(c))

(* What holds of C31 in the code: the part on the stores, and for the      *)
(* calls that met no store of a polling goroutine, the report is what the  *)
(* checks hold when the call returns.                                      *)
C31_ReportsStoredIfNoStoreMet ==
  /\ [][\A t \in Tasks :
          Completes(t) => /\ CheckAt(t)'.Status = tasks[t].pending.Status
                          /\ CheckAt(t)'.LastExecuted = now]_vars
  /\ [](\A c \in Callers :
          (CheckerRangeDone(c) /\ ~callers[c].raced) => ReportsStored(c))

(* A call that met no store reports a check Up with the time of its        *)
(* execution and another Down.                                             *)
C31_Witness ==
  \E c \in Callers, t \in CheckerChecks :
    /\ CheckerRangeDone(c) /\ ~callers[c].raced
    /\ Cardinality(CheckerChecks) = 2
    /\ Reported(c, t).LastExecuted # ZeroTime
    /\ Reported(c, t).Status.State = StateUp
    /\ checkerStatus(c).State = StateDown

(* The pairs of Status and LastExecuted that belong to one execution of    *)
(* the probe of t, and the pair of zero values a Check holds before the    *)
(* first.                                                                  *)
OfOneExecution(t) ==
  {[Status |-> e.Status, LastExecuted |-> e.Timestamp] : e \in tasks[t].executions}
  \cup {[Status |-> Status(StateDown, NoDetails), LastExecuted |-> ZeroTime]}

(* C32: the Status and the LastExecuted that Checker.Check is about to     *)
(* report for a check are those of one execution of its probe (or the zero *)
(* values, before the first), whatever the polling goroutines did during   *)
(* the call.                                                               *)
C32_StatusAndLastExecutedOfOneExecution ==
  \A c \in Callers :
    CheckerRangeDone(c) =>
      \A t \in CheckerChecks :
        [Status |-> Reported(c, t).Status,
         LastExecuted |-> Reported(c, t).LastExecuted] \in OfOneExecution(t)

(* What holds of C32 in the code: the same for the calls that met no store *)
(* of a polling goroutine.                                                 *)
C32_OfOneExecutionIfNoStoreMet ==
  \A c \in Callers :
    (CheckerRangeDone(c) /\ ~callers[c].raced) =>
      \A t \in CheckerChecks :
        [Status |-> Reported(c, t).Status,
         LastExecuted |-> Reported(c, t).LastExecuted] \in OfOneExecution(t)
====
